---- MODULE Spec2Model ----
(***************************************************************************)
(* A model of the bytecode interpreter of src/jvm.c: execute(), its        *)
(* dispatch loop over one method's code, the frames built by invokestatic, *)
(* the array heap, and main()'s call of execute() on the main method.      *)
(*                                                                         *)
(* Values are C int32_t.  TLC's integers are 32-bit too, so every          *)
(* operation below is computed without leaving [-2^31, 2^31-1].            *)
(* A size_t value (pc, stack_index) is held as the integer nearest to zero *)
(* that is congruent to it modulo 2^64: -1 stands for SIZE_MAX.            *)
(***************************************************************************)
EXTENDS Integers, Sequences, FiniteSets, TLC

VARIABLES class, frames, heap, out, status, result, steps, blocks

vars == <<class, frames, heap, out, status, result, steps, blocks>>

-----------------------------------------------------------------------------
(* Bounds of the model *)

\* dispatch-loop iterations followed in one run
MaxSteps == 36
\* longest instruction sequence of the enumerated programs
MaxGenLen == 2
\* longest array the heap is taken to hold
MaxArrayLen == 8

-----------------------------------------------------------------------------
(* int32_t *)

MaxInt == 2147483647
MinInt == -MaxInt - 1

\* An outcome of evaluating a C expression: a value, or a trap (the run is
\* killed on the spot: SIGSEGV, SIGFPE, a sanitizer's or -ftrapv's abort).
Val(v) == [trap |-> FALSE, v |-> v]
Trap == [trap |-> TRUE, v |-> 0]

\* What a read outside every object may yield when it does not trap.
Garbage == {0, 7}

\* a + b, a - b reduced into int32_t (what the add/sub instruction leaves)
AddOverflows(a, b) == (b > 0 /\ a > MaxInt - b) \/ (b < 0 /\ a < MinInt - b)
AddWrap(a, b) ==
    IF b > 0 /\ a > MaxInt - b THEN (a - MaxInt - 1) + (b - MaxInt - 1)
    ELSE IF b < 0 /\ a < MinInt - b THEN (a + MaxInt + 1) + (b + MaxInt + 1)
    ELSE a + b

SubOverflows(a, b) == (b < 0 /\ a > MaxInt + b) \/ (b > 0 /\ a < MinInt + b)
SubWrap(a, b) ==
    IF b < 0 /\ a > MaxInt + b THEN (a - MaxInt - 1) - (b + MaxInt + 1)
    ELSE IF b > 0 /\ a < MinInt + b THEN (a + MaxInt + 1) - (b - MaxInt - 1)
    ELSE a - b

\* the two 16-bit halves of an int32_t, each in 0..65535
Lo16(a) == a % 65536
Hi16(a) == (a \div 65536) % 65536
\* the int32_t with the given halves
FromHalves(hi, lo) == IF hi >= 32768 THEN (hi - 65536) * 65536 + lo ELSE hi * 65536 + lo
\* x * y mod 2^16 and x * y div 2^16, for x, y in 0..65535
MulLo16(x, y) == (x * (y % 256) + ((x * (y \div 256)) % 256) * 256) % 65536
MulHi16(x, y) == ((x * (y % 256) + ((x * (y \div 256)) % 256) * 256) \div 65536)
                    + ((x * (y \div 256)) \div 256)
\* a * b reduced into int32_t
MulWrap(a, b) ==
    FromHalves((MulHi16(Lo16(a), Lo16(b)) + MulLo16(Hi16(a), Lo16(b))
                   + MulLo16(Lo16(a), Hi16(b))) % 65536,
               MulLo16(Lo16(a), Lo16(b)))

\* C's / and %: the quotient truncated toward zero, the remainder with the
\* sign of the dividend.  Defined for b # 0 and (a, b) # (INT_MIN, -1).
TruncDiv(a, b) ==
    IF b > 0 THEN (IF a < 0 /\ a % b # 0 THEN (a \div b) + 1 ELSE a \div b)
    ELSE IF b = MinInt THEN (IF a = MinInt THEN 1 ELSE 0)
    ELSE IF a < 0 /\ a % (-b) # 0 THEN -((a \div (-b)) + 1) ELSE -(a \div (-b))
TruncRem(a, b) ==
    IF b > 0 THEN (IF a < 0 /\ a % b # 0 THEN (a % b) - b ELSE a % b)
    ELSE IF b = MinInt THEN (IF a = MinInt THEN 0 ELSE a)
    ELSE IF a < 0 /\ a % (-b) # 0 THEN (a % (-b)) + b ELSE a % (-b)

MulOverflows(a, b) ==
    /\ a # 0
    /\ b # 0
    /\ \/ (a = MinInt /\ b = -1)
       \/ (a = -1 /\ b = MinInt)
       \/ /\ ~(a = MinInt /\ b = -1)
          /\ ~(a = -1 /\ b = MinInt)
          /\ ~(TruncDiv(MulWrap(a, b), b) = a /\ TruncRem(MulWrap(a, b), b) = 0)

\* bitwise operations on two's-complement integers
RECURSIVE BitAnd(_, _)
BitAnd(a, b) ==
    IF a = 0 \/ b = 0 THEN 0
    ELSE IF a = -1 THEN b
    ELSE IF b = -1 THEN a
    ELSE 2 * BitAnd(a \div 2, b \div 2) + (a % 2) * (b % 2)
RECURSIVE BitOr(_, _)
BitOr(a, b) ==
    IF a = 0 THEN b
    ELSE IF b = 0 THEN a
    ELSE IF a = -1 \/ b = -1 THEN -1
    ELSE 2 * BitOr(a \div 2, b \div 2) + (IF a % 2 = 1 \/ b % 2 = 1 THEN 1 ELSE 0)
RECURSIVE BitXor(_, _)
BitXor(a, b) ==
    IF a = 0 THEN b
    ELSE IF b = 0 THEN a
    ELSE IF a = -1 THEN -1 - b
    ELSE IF b = -1 THEN -1 - a
    ELSE 2 * BitXor(a \div 2, b \div 2) + (IF a % 2 = b % 2 THEN 0 ELSE 1)

\* 2^k for k in 0..30
RECURSIVE Pow2(_)
Pow2(k) == IF k = 0 THEN 1 ELSE 2 * Pow2(k - 1)
\* the int32_t whose only set bit is bit k, for k in 0..31
Bit(k) == IF k = 31 THEN MinInt ELSE Pow2(k)

\* The shifts for a count k in 0..31, as the shift instructions compute them:
\* a << k keeps the low 32 bits, >> on int32_t copies the sign bit,
\* >> on uint32_t fills with zeros.
ShlBits(a, k) == MulWrap(a, Bit(k))
SarBits(a, k) == IF k = 31 THEN (IF a < 0 THEN -1 ELSE 0) ELSE a \div Pow2(k)
\* ShrBits copying the sign bit
ShrBits_Arithmetic(a, k) == SarBits(a, k)
ShrBits(a, k) ==
    IF a >= 0 THEN SarBits(a, k)
    ELSE IF k = 0 THEN a
    ELSE ((a \div 2) + MaxInt + 1) \div Pow2(k - 1)

\* (int8_t) and (int16_t) of a value in 0..255 respectively 0..65535
Int8(x) == IF x >= 128 THEN x - 256 ELSE x
Int16(x) == IF x >= 32768 THEN x - 65536 ELSE x

-----------------------------------------------------------------------------
(* The opcodes execute() compares the instruction byte with (the enum of jvm.h;
   the values are those of the JVM instruction set) *)

i_nop == 0
i_iconst_m1 == 2
i_iconst_0 == 3
i_iconst_5 == 8
i_bipush == 16
i_sipush == 17
i_ldc == 18
i_iload == 21
i_aload == 25
i_iload_0 == 26
i_iload_3 == 29
i_aload_0 == 42
i_aload_3 == 45
i_iaload == 46
i_istore == 54
i_astore == 58
i_istore_0 == 59
i_istore_3 == 62
i_astore_0 == 75
i_astore_3 == 78
i_iastore == 79
i_dup == 89
i_iadd == 96
i_isub == 100
i_imul == 104
i_idiv == 108
i_irem == 112
i_ineg == 116
i_ishl == 120
i_ishr == 122
i_iushr == 124
i_iand == 126
i_ior == 128
i_ixor == 130
i_iinc == 132
i_ifeq == 153
i_ifne == 154
i_iflt == 155
i_ifge == 156
i_ifgt == 157
i_ifle == 158
i_if_icmpeq == 159
i_if_icmpne == 160
i_if_icmplt == 161
i_if_icmpge == 162
i_if_icmpgt == 163
i_if_icmple == 164
i_goto == 167
i_ireturn == 172
i_areturn == 176
i_return == 177
i_getstatic == 178
i_invokevirtual == 182
i_invokestatic == 184
i_newarray == 188
i_arraylength == 190

-----------------------------------------------------------------------------
(* size_t *)

\* a < b and a >= b on size_t (a negative representative is a huge value)
SizeLt(a, b) == IF (a < 0) = (b < 0) THEN a < b ELSE b < 0
SizeGe(a, b) == ~SizeLt(a, b)

-----------------------------------------------------------------------------
(* The class file, the frames and the memory they read and write *)

\* calloc(n, sizeof(int32_t)): n zeroed slots
Zeros(n) == [i \in 1..n |-> 0]

\* optional_value_t
Void == [has_value |-> FALSE, value |-> 0]
Value(v) == [has_value |-> TRUE, value |-> v]

\* the frame execute() is running: the innermost call
Top == frames[Len(frames)]
TheMethod(f) == class.methods[f.method]
code(f) == TheMethod(f).code
code_length(f) == Len(code(f))
max_stack(f) == TheMethod(f).max_stack
max_locals(f) == TheMethod(f).max_locals

\* the frame as execute() starts on method m with the given locals
NewFrame(m, locals, stack_block, locals_block) ==
    [method |-> m, pc |-> 0, stack_index |-> 0,
     stack |-> Zeros(class.methods[m].max_stack), locals |-> locals,
     stack_block |-> stack_block, locals_block |-> locals_block]

\* calloc and free of the operand stacks and the callee-locals arrays: blocks
\* holds one entry per block calloc has returned, with the number of times
\* free has been called on it; a frame names its blocks by their position
\* (locals_block 0: the locals are main()'s array, not a calloc'ed block)
calloc(bs, kind) == Append(bs, [kind |-> kind, frees |-> 0])
free(bs, b) == [bs EXCEPT ![b].frees = @ + 1]

\* code[pc + k].  Past the end of the code buffer the read is outside the
\* object: it traps or yields whatever lies there.
CodeByte(f, k) ==
    IF 0 <= f.pc + k /\ f.pc + k < code_length(f)
    THEN {Val(code(f)[f.pc + k + 1])}
    ELSE {Trap} \cup {Val(g) : g \in Garbage}

\* stack[i].  The buffer holds max_stack slots; a slot above it that an earlier
\* out-of-bounds push has written keeps what was written there (the sequence is
\* then longer than max_stack); any other slot outside is garbage.
StackRead(f, i) ==
    IF 0 <= i /\ i < Len(f.stack)
    THEN {Val(f.stack[i + 1])}
    ELSE {Trap} \cup {Val(g) : g \in Garbage}

\* stack[i] = v: the stack after it, or a trap.  A write outside the buffer
\* traps or lands in the memory around it.
StackWrite(f, i, v) ==
    IF 0 <= i /\ i < max_stack(f)
    THEN {[trap |-> FALSE, stack |-> [f.stack EXCEPT ![i + 1] = v]]}
    ELSE {[trap |-> TRUE, stack |-> f.stack],
          [trap |-> FALSE,
           stack |-> IF 0 <= i /\ i < Len(f.stack) THEN [f.stack EXCEPT ![i + 1] = v]
                     ELSE IF i = Len(f.stack) THEN Append(f.stack, v)
                     ELSE f.stack]}

\* locals[i] and locals[i] = v
LocalsRead(f, i) ==
    IF 0 <= i /\ i < Len(f.locals)
    THEN {Val(f.locals[i + 1])}
    ELSE {Trap} \cup {Val(g) : g \in Garbage}
LocalsWrite(f, i, v) ==
    IF 0 <= i /\ i < Len(f.locals)
    THEN {[trap |-> FALSE, locals |-> [f.locals EXCEPT ![i + 1] = v]]}
    ELSE {[trap |-> TRUE, locals |-> f.locals], [trap |-> FALSE, locals |-> f.locals]}

\* class->constant_pool[i].info read as an int32_t
PoolInt(i) ==
    IF 0 <= i /\ i < Len(class.constant_pool)
    THEN {Val(class.constant_pool[i + 1])}
    ELSE {Trap} \cup {Val(g) : g \in Garbage}

\* find_method_from_index and get_number_of_parameters (read_class.h): the
\* method a constant-pool index resolves to, 0 when it resolves to none
find_method_from_index(pool_index) ==
    IF pool_index \in DOMAIN class.methods THEN pool_index ELSE 0
get_number_of_parameters(m) == class.methods[m].params

\* heap_add and heap_get (heap.h): the heap is an append-only sequence of
\* arrays and a reference is the position an array was appended at, from 0
heap_add(h, arr) == [heap |-> Append(h, arr), ref |-> Len(h)]
ValidRef(h, ref) == 0 <= ref /\ ref < Len(h)
heap_get(h, ref) == h[ref + 1]

\* arr[i] and arr[i] = v on an array of the heap
ArrRead(arr, i) ==
    IF 0 <= i /\ i < Len(arr)
    THEN {Val(arr[i + 1])}
    ELSE {Trap} \cup {Val(g) : g \in Garbage}
ArrWrite(arr, i, v) ==
    IF 0 <= i /\ i < Len(arr)
    THEN {[trap |-> FALSE, arr |-> [arr EXCEPT ![i + 1] = v]]}
    ELSE {[trap |-> TRUE, arr |-> arr], [trap |-> FALSE, arr |-> arr]}

-----------------------------------------------------------------------------
(* The expressions of the opcodes.  Each yields the set of its outcomes: one
   value where C defines the result, and every outcome a build can produce
   where it does not (signed overflow, INT_MIN / -1, a shift count outside
   0..31): the value the machine instruction leaves, or a trap.  A left shift
   of a negative value is taken as the two's-complement shift every compiler
   of the code produces. *)

\* stack[stack_index - 2] + stack[stack_index - 1]
iadd(a, b) == IF AddOverflows(a, b) THEN {Val(AddWrap(a, b)), Trap} ELSE {Val(a + b)}
\* stack[stack_index - 2] - stack[stack_index - 1]
isub(a, b) == IF SubOverflows(a, b) THEN {Val(SubWrap(a, b)), Trap} ELSE {Val(a - b)}
\* stack[stack_index - 2] * stack[stack_index - 1]
imul(a, b) == IF MulOverflows(a, b) THEN {Val(MulWrap(a, b)), Trap} ELSE {Val(a * b)}
\* stack[stack_index - 2] / stack[stack_index - 1], the divisor not 0
idiv(a, b) == IF a = MinInt /\ b = -1 THEN {Trap, Val(MinInt)} ELSE {Val(TruncDiv(a, b))}
\* stack[stack_index - 2] % stack[stack_index - 1], the divisor not 0
irem(a, b) == IF a = MinInt /\ b = -1 THEN {Trap, Val(0)} ELSE {Val(TruncRem(a, b))}
\* stack[stack_index - 1] *= -1
ineg(a) == IF a = MinInt THEN {Val(MinInt), Trap} ELSE {Val(-a)}
\* stack[stack_index - 2] << stack[stack_index - 1]: outside 0..31 the count is
\* used modulo 32 (x86, arm64), or shifts everything out (arm), or traps
ishl(a, b) ==
    IF 0 <= b /\ b <= 31 THEN {Val(ShlBits(a, b))}
    ELSE {Val(ShlBits(a, b % 32)), Val(0), Trap}
\* stack[stack_index - 2] >> stack[stack_index - 1]
ishr(a, b) ==
    IF 0 <= b /\ b <= 31 THEN {Val(SarBits(a, b))}
    ELSE {Val(SarBits(a, b % 32)), Val(SarBits(a, 31)), Trap}
\* ((uint32_t) stack[stack_index - 2]) >> stack[stack_index - 1]
iushr(a, b) ==
    IF 0 <= b /\ b <= 31 THEN {Val(ShrBits(a, b))}
    ELSE {Val(ShrBits(a, b % 32)), Val(0), Trap}
iand(a, b) == {Val(BitAnd(a, b))}
ior(a, b) == {Val(BitOr(a, b))}
ixor(a, b) == {Val(BitXor(a, b))}

\* BranchOffset without the sign extension
BranchOffset_Unsigned(hi, lo) == hi * 256 + lo

\* (int16_t)(code[pc + 1] << 8) | code[pc + 2]: the cast binds to the shifted
\* high byte, and the low byte is or-ed into the sign-extended result
BranchOffset(hi, lo) == BitOr(Int16(hi * 256), lo)
\* SipushValue without the conversion to int16_t
SipushValue_Unsigned(hi, lo) == BitOr(hi * 256, lo)

\* int16_t b_concat = ((code[pc + 1] << 8) | code[pc + 2])
SipushValue(hi, lo) == Int16(BitOr(hi * 256, lo))
\* (int) ((int8_t) code[pc + 1])
BipushValue(b) == Int8(b)
\* pc += (size_t) offset, on size_t
BranchTarget(pc, offset) == pc + offset

\* CalleeLocals with the arguments stored in the order they are popped
CalleeLocals_PopOrder(n_locals, parameters, args) ==
    [j \in 1..n_locals |-> IF j <= parameters THEN args[j] ELSE 0]

\* local_temp after the loop of invokestatic: calloc'ed, then
\* local_temp[parameters - i - 1] = stack[stack_index - i - 1] for each i,
\* args[i + 1] being the value read from stack[stack_index - i - 1]
CalleeLocals(n_locals, parameters, args) ==
    [j \in 1..n_locals |-> IF j <= parameters THEN args[parameters - j + 1] ELSE 0]

\* ElementSlot without the slot reserved for the length
ElementSlot_NoOffset(i) == i

\* the length slot and the element slot of user index i in a stored array
LengthSlot == 0
ElementSlot(i) == IF i = MaxInt THEN MinInt ELSE i + 1

-----------------------------------------------------------------------------
(* The dispatch loop of execute(): one action per branch of its if-chain *)

\* the loop is entered for the innermost frame: while (pc < code_length)
InLoop ==
    /\ status = "running"
    /\ steps < MaxSteps
    /\ frames # <<>>
    /\ SizeLt(Top.pc, code_length(Top))
\* u1 instruction = code[pc]
instruction == code(Top)[Top.pc + 1]
Dispatch(op) == InLoop /\ instruction = op
DispatchRange(first, last) == InLoop /\ instruction >= first /\ instruction <= last

\* the run is killed by a trap
Crash ==
    /\ status' = "crash"
    /\ steps' = steps + 1
    /\ UNCHANGED <<class, frames, heap, out, result, blocks>>
\* an assert() fails
Abort ==
    /\ status' = "abort"
    /\ steps' = steps + 1
    /\ UNCHANGED <<class, frames, heap, out, result, blocks>>
\* the branch ends and the loop goes on with the frame as f
Continue(f) ==
    /\ frames' = [frames EXCEPT ![Len(frames)] = f]
    /\ steps' = steps + 1
    /\ UNCHANGED <<class, heap, out, status, result, blocks>>

\* Push without the stack_index++
Push_KeepsDepth(f, v, adv) ==
    \E w \in StackWrite(f, f.stack_index, v) :
        IF w.trap THEN Crash
        ELSE Continue([f EXCEPT !.stack = w.stack, !.pc = @ + adv])

\* stack[stack_index] = v; stack_index++; pc += adv
Push(f, v, adv) ==
    \E w \in StackWrite(f, f.stack_index, v) :
        IF w.trap THEN Crash
        ELSE Continue([f EXCEPT !.stack = w.stack, !.stack_index = @ + 1, !.pc = @ + adv])

\* FinishFrame with the callee's locals being the caller's own array
FinishFrame_SharedLocals(res) ==
    IF Len(frames) = 1
    THEN /\ status' = IF res.has_value THEN "abort" ELSE "done"
         /\ frames' = <<>>
         /\ result' = res
         /\ steps' = steps + 1
         /\ blocks' = free(blocks, Top.stack_block)
         /\ UNCHANGED <<class, heap, out>>
    ELSE LET c == frames[Len(frames) - 1]
             rest == SubSeq(frames, 1, Len(frames) - 2)
         IN  IF res.has_value
             THEN \E w \in StackWrite(c, c.stack_index, res.value) :
                     IF w.trap THEN Crash
                     ELSE /\ frames' = Append(rest, [c EXCEPT !.locals = Top.locals,
                                                              !.stack = w.stack,
                                                              !.stack_index = @ + 1,
                                                              !.pc = @ + 3])
                          /\ result' = res
                          /\ steps' = steps + 1
                          /\ blocks' = free(free(blocks, Top.stack_block), Top.locals_block)
                          /\ UNCHANGED <<class, heap, out, status>>
             ELSE /\ frames' = Append(rest, [c EXCEPT !.locals = Top.locals, !.pc = @ + 3])
                  /\ result' = res
                  /\ steps' = steps + 1
                  /\ blocks' = free(free(blocks, Top.stack_block), Top.locals_block)
                  /\ UNCHANGED <<class, heap, out, status>>

\* execute() frees its stack and returns res: to main(), which asserts that it
\* holds no value, or to the invokestatic branch of the caller's frame, which
\* pushes the value if there is one, moves on by 3 and frees the callee's locals
FinishFrame(res) ==
    IF Len(frames) = 1
    THEN /\ status' = IF res.has_value THEN "abort" ELSE "done"
         /\ frames' = <<>>
         /\ result' = res
         /\ steps' = steps + 1
         /\ blocks' = free(blocks, Top.stack_block)
         /\ UNCHANGED <<class, heap, out>>
    ELSE LET c == frames[Len(frames) - 1]
             rest == SubSeq(frames, 1, Len(frames) - 2)
         IN  IF res.has_value
             THEN \E w \in StackWrite(c, c.stack_index, res.value) :
                     IF w.trap THEN Crash
                     ELSE /\ frames' = Append(rest, [c EXCEPT !.stack = w.stack,
                                                              !.stack_index = @ + 1,
                                                              !.pc = @ + 3])
                          /\ result' = res
                          /\ steps' = steps + 1
                          /\ blocks' = free(free(blocks, Top.stack_block), Top.locals_block)
                          /\ UNCHANGED <<class, heap, out, status>>
             ELSE /\ frames' = Append(rest, [c EXCEPT !.pc = @ + 3])
                  /\ result' = res
                  /\ steps' = steps + 1
                  /\ blocks' = free(free(blocks, Top.stack_block), Top.locals_block)
                  /\ UNCHANGED <<class, heap, out, status>>

\* FallOff returning the value on top of a stack that is not empty
FallOff_ReturnsTop ==
    /\ status = "running"
    /\ steps < MaxSteps
    /\ frames # <<>>
    /\ SizeGe(Top.pc, code_length(Top))
    /\ FinishFrame(IF 1 <= Top.stack_index /\ Top.stack_index <= Len(Top.stack)
                   THEN Value(Top.stack[Top.stack_index]) ELSE Void)

\* the loop condition fails: the code after the loop returns void
FallOff ==
    /\ status = "running"
    /\ steps < MaxSteps
    /\ frames # <<>>
    /\ SizeGe(Top.pc, code_length(Top))
    /\ FinishFrame(Void)

\* return: break, and the code after the loop returns void
Return ==
    /\ Dispatch(i_return)
    /\ FinishFrame(Void)

\* ReturnTop reading the slot above the top, stack[stack_index]
ReturnTop_OffByOne ==
    \E v \in StackRead(Top, Top.stack_index) :
        IF v.trap THEN Crash ELSE FinishFrame(Value(v.v))

\* ireturn and areturn: the value of stack[stack_index - 1]
ReturnTop ==
    \E v \in StackRead(Top, Top.stack_index - 1) :
        IF v.trap THEN Crash ELSE FinishFrame(Value(v.v))
Ireturn == Dispatch(i_ireturn) /\ ReturnTop
Areturn == Dispatch(i_areturn) /\ ReturnTop

\* invokestatic up to the recursive call: the callee's frame is entered
Invokestatic ==
    /\ Dispatch(i_invokestatic)
    /\ \E hi \in CodeByte(Top, 1), lo \in CodeByte(Top, 2) :
        IF hi.trap \/ lo.trap THEN Crash
        ELSE LET f == Top
                 m == find_method_from_index(BranchOffset(hi.v, lo.v))
             IN  IF m = 0 THEN Crash
                 ELSE LET parameters == get_number_of_parameters(m)
                          reads == [i \in 1..parameters |->
                                       StackRead(f, f.stack_index - (i - 1) - 1)]
                      IN  \E args \in [1..parameters -> {Val(g) : g \in Garbage} \cup {Trap}
                                          \cup UNION {reads[i] : i \in 1..parameters}] :
                            /\ \A i \in 1..parameters : args[i] \in reads[i]
                            /\ IF \E i \in 1..parameters : args[i].trap THEN Crash
                               ELSE /\ frames' =
                                         Append([frames EXCEPT ![Len(frames)] =
                                                    [f EXCEPT !.stack_index = @ - parameters]],
                                                NewFrame(m, CalleeLocals(
                                                    class.methods[m].max_locals, parameters,
                                                    [i \in 1..parameters |-> args[i].v]),
                                                    Len(blocks) + 2, Len(blocks) + 1))
                                    /\ blocks' = calloc(calloc(blocks, "locals"), "stack")
                                    /\ steps' = steps + 1
                                    /\ UNCHANGED <<class, heap, out, status, result>>

Bipush ==
    /\ Dispatch(i_bipush)
    /\ \E b \in CodeByte(Top, 1) :
        IF b.trap THEN Crash ELSE Push(Top, BipushValue(b.v), 2)

\* the expression each binary operator's branch evaluates on a and b
Operate(op, a, b) ==
    CASE op = i_iadd -> iadd(a, b)
      [] op = i_isub -> isub(a, b)
      [] op = i_imul -> imul(a, b)
      [] op = i_idiv -> idiv(a, b)
      [] op = i_irem -> irem(a, b)
      [] op = i_ishl -> ishl(a, b)
      [] op = i_ishr -> ishr(a, b)
      [] op = i_iushr -> iushr(a, b)
      [] op = i_iand -> iand(a, b)
      [] op = i_ior -> ior(a, b)
      [] op = i_ixor -> ixor(a, b)

\* the branches of the binary operators: assert(stack_index >= 2), then
\* stack[stack_index - 2] = a op b; stack_index--; pc++
BinaryOp(op) ==
    /\ Dispatch(op)
    /\ LET f == Top
       IN  IF SizeLt(f.stack_index, 2) THEN Abort
           ELSE \E a \in StackRead(f, f.stack_index - 2),
                   b \in StackRead(f, f.stack_index - 1) :
                  IF a.trap \/ b.trap THEN Crash
                  ELSE \E c \in Operate(op, a.v, b.v) :
                         IF c.trap THEN Crash
                         ELSE \E w \in StackWrite(f, f.stack_index - 2, c.v) :
                                IF w.trap THEN Crash
                                ELSE Continue([f EXCEPT !.stack = w.stack,
                                                        !.stack_index = @ - 1,
                                                        !.pc = @ + 1])
\* idiv and irem: also assert(stack[stack_index - 1] != 0)
DivOp(op) ==
    /\ Dispatch(op)
    /\ LET f == Top
       IN  IF SizeLt(f.stack_index, 2) THEN Abort
           ELSE \E a \in StackRead(f, f.stack_index - 2),
                   b \in StackRead(f, f.stack_index - 1) :
                  IF b.trap THEN Crash
                  ELSE IF b.v = 0 THEN Abort
                  ELSE IF a.trap THEN Crash
                  ELSE \E c \in Operate(op, a.v, b.v) :
                         IF c.trap THEN Crash
                         ELSE \E w \in StackWrite(f, f.stack_index - 2, c.v) :
                                IF w.trap THEN Crash
                                ELSE Continue([f EXCEPT !.stack = w.stack,
                                                        !.stack_index = @ - 1,
                                                        !.pc = @ + 1])
Iadd == BinaryOp(i_iadd)
Isub == BinaryOp(i_isub)
Imul == BinaryOp(i_imul)
Idiv == DivOp(i_idiv)
Irem == DivOp(i_irem)
Ineg ==
    /\ Dispatch(i_ineg)
    /\ LET f == Top
       IN  \E a \in StackRead(f, f.stack_index - 1) :
             IF a.trap THEN Crash
             ELSE \E c \in ineg(a.v) :
                    IF c.trap THEN Crash
                    ELSE \E w \in StackWrite(f, f.stack_index - 1, c.v) :
                           IF w.trap THEN Crash
                           ELSE Continue([f EXCEPT !.stack = w.stack, !.pc = @ + 1])
Ishl == BinaryOp(i_ishl)
Ishr == BinaryOp(i_ishr)
Iushr == BinaryOp(i_iushr)
Iand == BinaryOp(i_iand)
Ior == BinaryOp(i_ior)
Ixor == BinaryOp(i_ixor)

\* getstatic moving pc past the opcode only
Getstatic_Width1 ==
    /\ Dispatch(i_getstatic)
    /\ Continue([Top EXCEPT !.pc = @ + 1])

\* getstatic: pc += 3
Getstatic ==
    /\ Dispatch(i_getstatic)
    /\ Continue([Top EXCEPT !.pc = @ + 3])

\* Invokevirtual printing before the decrement: the slot above the top
Invokevirtual_PrintsAbove ==
    /\ Dispatch(i_invokevirtual)
    /\ LET f == Top
       IN  IF ~SizeLt(0, f.stack_index) THEN Abort
           ELSE \E v \in StackRead(f, f.stack_index) :
                  IF v.trap THEN Crash
                  ELSE /\ out' = Append(out, v.v)
                       /\ frames' = [frames EXCEPT ![Len(frames)] =
                                        [f EXCEPT !.stack_index = @ - 1, !.pc = @ + 3]]
                       /\ steps' = steps + 1
                       /\ UNCHANGED <<class, heap, status, result, blocks>>

\* assert(stack_index > 0); stack_index--; printf("%d\n", stack[stack_index])
Invokevirtual ==
    /\ Dispatch(i_invokevirtual)
    /\ LET f == Top
       IN  IF ~SizeLt(0, f.stack_index) THEN Abort
           ELSE \E v \in StackRead(f, f.stack_index - 1) :
                  IF v.trap THEN Crash
                  ELSE /\ out' = Append(out, v.v)
                       /\ frames' = [frames EXCEPT ![Len(frames)] =
                                        [f EXCEPT !.stack_index = @ - 1, !.pc = @ + 3]]
                       /\ steps' = steps + 1
                       /\ UNCHANGED <<class, heap, status, result, blocks>>

Iconst ==
    /\ DispatchRange(i_iconst_m1, i_iconst_5)
    /\ Push(Top, instruction - i_iconst_0, 1)

Sipush ==
    /\ Dispatch(i_sipush)
    /\ \E hi \in CodeByte(Top, 1), lo \in CodeByte(Top, 2) :
        IF hi.trap \/ lo.trap THEN Crash
        ELSE Push(Top, SipushValue(hi.v, lo.v), 3)

\* stack[stack_index] = locals[code[pc + 1]]
LoadOperand(op) ==
    /\ Dispatch(op)
    /\ \E i \in CodeByte(Top, 1) :
        IF i.trap THEN Crash
        ELSE \E v \in LocalsRead(Top, i.v) :
               IF v.trap THEN Crash ELSE Push(Top, v.v, 2)
\* stack[stack_index] = locals[instruction - base]
LoadN(base, last) ==
    /\ DispatchRange(base, last)
    /\ \E v \in LocalsRead(Top, instruction - base) :
        IF v.trap THEN Crash ELSE Push(Top, v.v, 1)
\* locals[i] = stack[stack_index - 1]; stack_index--; pc += adv
Store(f, i, adv) ==
    \E v \in StackRead(f, f.stack_index - 1) :
        IF v.trap THEN Crash
        ELSE \E w \in LocalsWrite(f, i, v.v) :
               IF w.trap THEN Crash
               ELSE Continue([f EXCEPT !.locals = w.locals,
                                       !.stack_index = @ - 1,
                                       !.pc = @ + adv])
StoreOperand(op) ==
    /\ Dispatch(op)
    /\ \E i \in CodeByte(Top, 1) :
        IF i.trap THEN Crash ELSE Store(Top, i.v, 2)
StoreN(base, last) ==
    /\ DispatchRange(base, last)
    /\ Store(Top, instruction - base, 1)

Iload == LoadOperand(i_iload)
Istore == StoreOperand(i_istore)
\* locals[code[pc + 1]] += (int8_t) code[pc + 2]
Iinc ==
    /\ Dispatch(i_iinc)
    /\ \E i \in CodeByte(Top, 1), d \in CodeByte(Top, 2) :
        IF i.trap \/ d.trap THEN Crash
        ELSE \E v \in LocalsRead(Top, i.v) :
               IF v.trap THEN Crash
               ELSE \E c \in iadd(v.v, Int8(d.v)) :
                      IF c.trap THEN Crash
                      ELSE \E w \in LocalsWrite(Top, i.v, c.v) :
                             IF w.trap THEN Crash
                             ELSE Continue([Top EXCEPT !.locals = w.locals, !.pc = @ + 3])
IloadN == LoadN(i_iload_0, i_iload_3)
IstoreN == StoreN(i_istore_0, i_istore_3)

\* stack[stack_index] = *((int32_t *) class->constant_pool[code[pc + 1] - 1].info)
Ldc ==
    /\ Dispatch(i_ldc)
    /\ \E i \in CodeByte(Top, 1) :
        IF i.trap THEN Crash
        ELSE \E v \in PoolInt(i.v - 1) :
               IF v.trap THEN Crash ELSE Push(Top, v.v, 2)

\* pc += (size_t)((int16_t)(code[pc + 1] << 8) | code[pc + 2]), the frame
\* left with the given stack_index
Branch(f, sp) ==
    \E hi \in CodeByte(f, 1), lo \in CodeByte(f, 2) :
        IF hi.trap \/ lo.trap THEN Crash
        ELSE Continue([f EXCEPT !.pc = BranchTarget(@, BranchOffset(hi.v, lo.v)),
                                !.stack_index = sp])

\* the comparison each conditional branch makes, on the top of the stack
\* (if<cond>) or on the two values on top (if_icmp<cond>)
IfCond(op, a) ==
    CASE op = i_ifeq -> a = 0
      [] op = i_ifne -> a # 0
      [] op = i_iflt -> a < 0
      [] op = i_ifge -> a >= 0
      [] op = i_ifgt -> a > 0
      [] op = i_ifle -> a <= 0
\* IfIcmpCond with the operands taken in pop order
IfIcmpCond_PopOrder(op, a, b) ==
    CASE op = i_if_icmpeq -> b = a
      [] op = i_if_icmpne -> b # a
      [] op = i_if_icmplt -> b < a
      [] op = i_if_icmpge -> b >= a
      [] op = i_if_icmpgt -> b > a
      [] op = i_if_icmple -> b <= a

IfIcmpCond(op, a, b) ==
    CASE op = i_if_icmpeq -> a = b
      [] op = i_if_icmpne -> a # b
      [] op = i_if_icmplt -> a < b
      [] op = i_if_icmpge -> a >= b
      [] op = i_if_icmpgt -> a > b
      [] op = i_if_icmple -> a <= b

\* if<cond>: assert(stack_index > 0); branch or pc += 3; stack_index--
If1(op) ==
    /\ Dispatch(op)
    /\ LET f == Top
       IN  IF ~SizeLt(0, f.stack_index) THEN Abort
           ELSE \E a \in StackRead(f, f.stack_index - 1) :
                  IF a.trap THEN Crash
                  ELSE IF IfCond(op, a.v) THEN Branch(f, f.stack_index - 1)
                  ELSE Continue([f EXCEPT !.pc = @ + 3, !.stack_index = @ - 1])
\* if_icmp<cond>: assert(stack_index >= 2); branch or pc += 3; stack_index -= 2
If2(op) ==
    /\ Dispatch(op)
    /\ LET f == Top
       IN  IF SizeLt(f.stack_index, 2) THEN Abort
           ELSE \E a \in StackRead(f, f.stack_index - 2),
                   b \in StackRead(f, f.stack_index - 1) :
                  IF a.trap \/ b.trap THEN Crash
                  ELSE IF IfIcmpCond(op, a.v, b.v) THEN Branch(f, f.stack_index - 2)
                  ELSE Continue([f EXCEPT !.pc = @ + 3, !.stack_index = @ - 2])

Ifeq == If1(i_ifeq)
Ifne == If1(i_ifne)
Iflt == If1(i_iflt)
Ifge == If1(i_ifge)
Ifgt == If1(i_ifgt)
Ifle == If1(i_ifle)
If_icmpeq == If2(i_if_icmpeq)
If_icmpne == If2(i_if_icmpne)
If_icmplt == If2(i_if_icmplt)
If_icmpge == If2(i_if_icmpge)
If_icmpgt == If2(i_if_icmpgt)
If_icmple == If2(i_if_icmple)

Goto ==
    /\ Dispatch(i_goto)
    /\ Branch(Top, Top.stack_index)

Nop ==
    /\ Dispatch(i_nop)
    /\ Continue([Top EXCEPT !.pc = @ + 1])

\* stack[stack_index] = stack[stack_index - 1]
Dup ==
    /\ Dispatch(i_dup)
    /\ \E v \in StackRead(Top, Top.stack_index - 1) :
        IF v.trap THEN Crash ELSE Push(Top, v.v, 1)

\* the array newarray stores for length n: n + 1 zeroed slots, arr[0] = n
NewArray(n) == [i \in 1..(n + 1) |-> IF i = LengthSlot + 1 THEN n ELSE 0]

\* newarray: calloc of stack[stack_index - 1] + 1 slots.  A negative length
\* makes calloc return NULL or, for -1, a block of no slots, and arr[0] is
\* then written outside every object; a length the heap cannot hold is fatal.
Newarray ==
    /\ Dispatch(i_newarray)
    /\ LET f == Top
       IN  \E n \in StackRead(f, f.stack_index - 1) :
             IF n.trap THEN Crash
             ELSE IF n.v < -1 \/ n.v > MaxArrayLen THEN Crash
             ELSE \E arr \in (IF n.v = -1 THEN {<<>>, <<-1>>} ELSE {NewArray(n.v)}) :
                    IF arr = <<>> THEN Crash
                    ELSE LET added == heap_add(heap, arr)
                         IN  \E w \in StackWrite(f, f.stack_index - 1, added.ref) :
                               IF w.trap THEN Crash
                               ELSE /\ heap' = added.heap
                                    /\ frames' = [frames EXCEPT ![Len(frames)] =
                                                     [f EXCEPT !.stack = w.stack, !.pc = @ + 2]]
                                    /\ steps' = steps + 1
                                    /\ UNCHANGED <<class, out, status, result, blocks>>

\* stack[stack_index - 1] = heap_get(heap, stack[stack_index - 1])[0]
Arraylength ==
    /\ Dispatch(i_arraylength)
    /\ LET f == Top
       IN  \E r \in StackRead(f, f.stack_index - 1) :
             IF r.trap THEN Crash
             ELSE IF ~ValidRef(heap, r.v) THEN Crash
             ELSE \E n \in ArrRead(heap_get(heap, r.v), LengthSlot) :
                    IF n.trap THEN Crash
                    ELSE \E w \in StackWrite(f, f.stack_index - 1, n.v) :
                           IF w.trap THEN Crash
                           ELSE Continue([f EXCEPT !.stack = w.stack, !.pc = @ + 1])

\* arr = heap_get(heap, stack[stack_index - 3]);
\* arr[stack[stack_index - 2] + 1] = stack[stack_index - 1]
Iastore ==
    /\ Dispatch(i_iastore)
    /\ LET f == Top
       IN  \E r \in StackRead(f, f.stack_index - 3),
              i \in StackRead(f, f.stack_index - 2),
              v \in StackRead(f, f.stack_index - 1) :
             IF r.trap \/ i.trap \/ v.trap THEN Crash
             ELSE IF ~ValidRef(heap, r.v) THEN Crash
             ELSE \E w \in ArrWrite(heap_get(heap, r.v), ElementSlot(i.v), v.v) :
                    IF w.trap THEN Crash
                    ELSE /\ heap' = [heap EXCEPT ![r.v + 1] = w.arr]
                         /\ frames' = [frames EXCEPT ![Len(frames)] =
                                          [f EXCEPT !.stack_index = @ - 3, !.pc = @ + 1]]
                         /\ steps' = steps + 1
                         /\ UNCHANGED <<class, out, status, result, blocks>>

\* arr = heap_get(heap, stack[stack_index - 2]);
\* stack[stack_index - 2] = arr[stack[stack_index - 1] + 1]
Iaload ==
    /\ Dispatch(i_iaload)
    /\ LET f == Top
       IN  \E r \in StackRead(f, f.stack_index - 2),
              i \in StackRead(f, f.stack_index - 1) :
             IF r.trap \/ i.trap THEN Crash
             ELSE IF ~ValidRef(heap, r.v) THEN Crash
             ELSE \E v \in ArrRead(heap_get(heap, r.v), ElementSlot(i.v)) :
                    IF v.trap THEN Crash
                    ELSE \E w \in StackWrite(f, f.stack_index - 2, v.v) :
                           IF w.trap THEN Crash
                           ELSE Continue([f EXCEPT !.stack = w.stack,
                                                   !.stack_index = @ - 1,
                                                   !.pc = @ + 1])

Aload == LoadOperand(i_aload)
Astore == StoreOperand(i_astore)
AloadN == LoadN(i_aload_0, i_aload_3)
AstoreN == StoreN(i_astore_0, i_astore_3)

\* the bytes some branch of the if-chain takes
Supported(b) ==
    \/ b \in {i_return, i_ireturn, i_invokestatic, i_bipush, i_iadd, i_isub, i_imul,
              i_idiv, i_irem, i_ineg, i_ishl, i_ishr, i_iushr, i_iand, i_ior, i_ixor,
              i_getstatic, i_invokevirtual, i_sipush, i_iload, i_istore, i_iinc, i_ldc,
              i_ifeq, i_ifne, i_iflt, i_ifge, i_ifgt, i_ifle, i_if_icmpeq, i_if_icmpne,
              i_if_icmplt, i_if_icmpge, i_if_icmpgt, i_if_icmple, i_goto, i_nop, i_dup,
              i_newarray, i_arraylength, i_areturn, i_iastore, i_iaload, i_aload, i_astore}
    \/ (b >= i_iconst_m1 /\ b <= i_iconst_5)
    \/ (b >= i_iload_0 /\ b <= i_iload_3)
    \/ (b >= i_istore_0 /\ b <= i_istore_3)
    \/ (b >= i_aload_0 /\ b <= i_aload_3)
    \/ (b >= i_astore_0 /\ b <= i_astore_3)

\* no branch of the if-chain takes the instruction: the loop body ends with
\* nothing changed and the loop condition is tested again
Unknown ==
    /\ InLoop
    /\ ~Supported(instruction)
    /\ steps' = steps + 1
    /\ UNCHANGED <<class, frames, heap, out, status, result, blocks>>

Next ==
    \/ FallOff
    \/ Return
    \/ Ireturn
    \/ Invokestatic
    \/ Bipush
    \/ Iadd
    \/ Isub
    \/ Imul
    \/ Idiv
    \/ Irem
    \/ Ineg
    \/ Ishl
    \/ Ishr
    \/ Iushr
    \/ Iand
    \/ Ior
    \/ Ixor
    \/ Getstatic
    \/ Invokevirtual
    \/ Iconst
    \/ Sipush
    \/ Iload
    \/ Istore
    \/ Iinc
    \/ IloadN
    \/ IstoreN
    \/ Ldc
    \/ Ifeq
    \/ Ifne
    \/ Iflt
    \/ Ifge
    \/ Ifgt
    \/ Ifle
    \/ If_icmpeq
    \/ If_icmpne
    \/ If_icmplt
    \/ If_icmpge
    \/ If_icmpgt
    \/ If_icmple
    \/ Goto
    \/ Nop
    \/ Dup
    \/ Newarray
    \/ Arraylength
    \/ Areturn
    \/ Iastore
    \/ Iaload
    \/ Aload
    \/ Astore
    \/ AloadN
    \/ AstoreN
    \/ Unknown

-----------------------------------------------------------------------------
(* The class files main() may be run on.  A class file holds its methods (the
   first is main, found by find_method) and the integers of its constant pool;
   every method has code and has room for its parameters in its locals, as the
   class file format requires. *)

Meth(c, ms, ml, p) == [code |-> c, max_stack |-> ms, max_locals |-> ml, params |-> p]
Class(ms, cp) == [methods |-> ms, constant_pool |-> cp]

RECURSIVE Flatten(_)
Flatten(ss) == IF ss = <<>> THEN <<>> ELSE Head(ss) \o Flatten(Tail(ss))

\* the operand byte of bipush that pushes v, for v in -128..127
Byte(v) == v % 256

\* operands of the arithmetic programs
ArithVals == {MinInt, -8, -1, 0, 1, 3, 31, 32, 35, MaxInt}
BinaryOpcodes == {i_iadd, i_isub, i_imul, i_idiv, i_irem, i_ishl, i_ishr, i_iushr,
                  i_iand, i_ior, i_ixor}
\* main prints a op b, respectively -a
ArithPrograms ==
    {Class(<<Meth(<<i_ldc, 1, i_ldc, 2, op, i_invokevirtual, 0, 0, i_return>>, 2, 1, 0)>>,
           <<a, b>>) : op \in BinaryOpcodes, a \in ArithVals, b \in ArithVals}
    \cup
    {Class(<<Meth(<<i_ldc, 1, i_ineg, i_invokevirtual, 0, 0, i_return>>, 1, 1, 0)>>,
           <<a>>) : a \in ArithVals}

\* operands and offset bytes of the branch programs
CmpVals == {MinInt, -1, 0, 1, MaxInt}
OffsetBytes == {<<0, 3>>, <<0, 4>>, <<0, 5>>, <<0, 255>>, <<1, 0>>, <<127, 255>>,
                <<128, 0>>, <<255, 0>>, <<255, 254>>, <<255, 255>>}
If1Opcodes == {i_ifeq, i_ifne, i_iflt, i_ifge, i_ifgt, i_ifle}
If2Opcodes == {i_if_icmpeq, i_if_icmpne, i_if_icmplt, i_if_icmpge, i_if_icmpgt, i_if_icmple}
BranchPrograms ==
    {Class(<<Meth(<<i_nop, i_ldc, 1, op, o[1], o[2], i_nop, i_iconst_0 + 1, i_iconst_0 + 2,
                    i_invokevirtual, 0, 0, i_return>>, 2, 1, 0)>>, <<a>>)
        : op \in If1Opcodes, o \in OffsetBytes, a \in CmpVals}
    \cup
    {Class(<<Meth(<<i_ldc, 1, i_ldc, 2, op, o[1], o[2], i_nop, i_iconst_0 + 1, i_iconst_0 + 2,
                    i_invokevirtual, 0, 0, i_return>>, 3, 1, 0)>>, <<a, b>>)
        : op \in If2Opcodes, o \in {<<0, 4>>, <<255, 252>>, <<128, 0>>}, a \in CmpVals, b \in CmpVals}
    \cup
    {Class(<<Meth(<<i_iconst_0, i_nop, i_ifne, 0, 8, i_goto, o[1], o[2], i_nop, i_iconst_0 + 1,
                    i_return>>, 2, 1, 0)>>, <<>>)
        : o \in OffsetBytes}

\* bipush and sipush with every kind of operand byte, through a local
PushBytes == {0, 1, 127, 128, 255}
PushPrograms ==
    {Class(<<Meth(<<i_bipush, b, i_istore, 1, i_iload, 1, i_dup, i_getstatic, 0, 0,
                    i_invokevirtual, 0, 0, i_astore, 2, i_aload, 2, i_return>>, 2, 3, 0)>>, <<>>)
        : b \in PushBytes}
    \cup
    {Class(<<Meth(<<i_sipush, hi, lo, i_invokevirtual, 0, 0, i_return>>, 1, 1, 0)>>, <<>>)
        : hi \in PushBytes, lo \in PushBytes}

\* a loop: the sum of 1..n-1 in local 1, counted by iinc on local 2
LoopPrograms ==
    {Class(<<Meth(<<i_iconst_0, i_istore_0 + 1, i_iconst_0 + 1, i_istore_0 + 2,
                    i_iload_0 + 1, i_iload_0 + 2, i_iadd, i_istore_0 + 1, i_iinc, 2, 1,
                    i_iload_0 + 2, i_iconst_0 + n, i_if_icmplt, 255, 247,
                    i_iload_0 + 1, i_invokevirtual, 0, 0, i_return>>, 2, 3, 0)>>, <<>>)
        : n \in 1..3}

\* recursion: main prints factorial(n)
Factorial ==
    Meth(<<i_iload_0, i_ifgt, 0, 5, i_iconst_0 + 1, i_ireturn,
           i_iload_0, i_iload_0, i_iconst_0 + 1, i_isub, i_invokestatic, 0, 2, i_imul,
           i_ireturn>>, 3, 1, 1)
RecursionPrograms ==
    {Class(<<Meth(<<i_iconst_0 + n, i_invokestatic, 0, 2, i_invokevirtual, 0, 0, i_return>>,
                  1, 1, 0), Factorial>>, <<>>)
        : n \in 0..2}

\* calls: main pushes 9 and then the arguments 11, 22, 33 of a callee with
\* p parameters, which overwrites its slot 0 and ends in one of the ways
\* a method can end
CalleeEnds ==
    {<<i_return>>, <<i_nop>>, <<i_iload_0, i_ireturn>>, <<i_iload_0 + 1, i_ireturn>>,
     <<i_iload_0 + 2, i_ireturn>>, <<i_iload_3, i_ireturn>>, <<i_aload_0 + 1, i_areturn>>,
     <<i_iconst_5, i_istore_0, i_iload_0, i_ireturn>>,
     <<i_iconst_5, i_istore_0, i_return>>, <<i_iload_0 + 1, i_iload_0 + 2, i_goto, 0, 9>>}
CallPrograms ==
    {Class(<<Meth(<<i_bipush, 9, i_bipush, 11, i_bipush, 22, i_bipush, 33,
                    i_invokestatic, 0, 2, i_istore_0 + 1, i_return>>, 4, 2, 0),
             Meth(e, 2, 4, p)>>, <<>>)
        : e \in CalleeEnds, p \in 0..3}

\* output: main prints 1, calls method 2 and prints 5; method 2 prints 2,
\* calls method 3 and prints 4; method 3 prints 3 and ends in one of three ways
OutputEnds == {<<i_return>>, <<i_nop>>, <<i_iconst_0, i_ireturn>>}
OutputPrograms ==
    {Class(<<Meth(<<i_iconst_0 + 1, i_invokevirtual, 0, 0, i_invokestatic, 0, 2,
                    i_iconst_5, i_invokevirtual, 0, 0, i_return>>, 2, 1, 0),
             Meth(<<i_iconst_0 + 2, i_invokevirtual, 0, 0, i_invokestatic, 0, 3,
                    i_iconst_0 + 4, i_invokevirtual, 0, 0>> \o e2, 2, 1, 0),
             Meth(<<i_iconst_0 + 3, i_invokevirtual, 0, 0>> \o e3, 1, 1, 0)>>, <<>>)
        : e2 \in OutputEnds, e3 \in OutputEnds}

\* sharing: main keeps an array of one element in local 1, pushes 9 and
\* calls method 2 on the array and 1; method 2 (arr, n) calls itself on
\* (arr, 0) while n is not 0, stores n in arr[0], overwrites its local 1 and
\* returns nothing or arr; main prints arr[0], through its local or through
\* the returned reference, and then the 9
SharingPrograms ==
    {Class(<<Meth(<<i_iconst_0 + 1, i_newarray, 10, i_astore_0 + 1, i_bipush, 9,
                    i_aload_0 + 1, i_iconst_0 + 1, i_invokestatic, 0, 2>>
                  \o (IF returned THEN <<>> ELSE <<i_aload_0 + 1>>)
                  \o <<i_iconst_0, i_iaload, i_invokevirtual, 0, 0,
                       i_invokevirtual, 0, 0, i_return>>, 3, 2, 0),
             Meth(<<i_iload_0 + 1, i_ifeq, 0, 9, i_aload_0, i_iconst_0,
                    i_invokestatic, 0, 2>>
                  \o (IF returned THEN <<i_istore_0 + 2>> ELSE <<i_nop>>)
                  \o <<i_aload_0, i_iconst_0, i_iload_0 + 1, i_iastore,
                       i_iconst_0 + 3, i_istore_0 + 1>>
                  \o (IF returned THEN <<i_aload_0, i_areturn>> ELSE <<i_return>>),
                  3, 3, 2)>>, <<>>)
        : returned \in BOOLEAN}

\* arrays: two arrays of lengths l1 and l2 in locals 1 and 2, a store of 5 at
\* index k of one, a load at index k2 of one, and both lengths
ArrayProgram(l1, l2, x, y, k, k2) ==
    Class(<<Meth(<<i_bipush, Byte(l1), i_newarray, 10, i_astore_0 + 1,
                   i_bipush, Byte(l2), i_newarray, 10, i_astore_0 + 2,
                   i_aload_0 + x, i_bipush, Byte(k), i_iconst_5, i_iastore,
                   i_aload_0 + y, i_bipush, Byte(k2), i_iaload, i_invokevirtual, 0, 0,
                   i_aload_0 + 1, i_arraylength, i_invokevirtual, 0, 0,
                   i_aload_0 + 2, i_arraylength, i_invokevirtual, 0, 0,
                   i_return>>, 3, 3, 0)>>, <<>>)
ArrayLens1 == {0, 2}
ArrayLens2 == {-1, 1, 3}
ArrayIndices == -2..3
ArrayPrograms ==
    {ArrayProgram(l1, l2, x, y, k, k2)
        : l1 \in ArrayLens1, l2 \in ArrayLens2, x \in 1..2, y \in 1..2,
          k \in ArrayIndices, k2 \in 0..1}

\* every sequence of at most MaxGenLen of these instructions as main, with a
\* second method that returns its parameter; 87 (pop) and 202 are bytes no
\* branch of the if-chain takes
GenInstrs ==
    {<<i_iconst_0 + 1>>, <<i_dup>>, <<i_ineg>>, <<i_istore_0>>, <<i_iload_0>>, <<i_iadd>>,
     <<i_idiv>>, <<i_ifeq, 0, 3>>, <<i_if_icmpeq, 0, 3>>, <<i_invokevirtual, 0, 0>>,
     <<i_ireturn>>, <<i_areturn>>, <<i_newarray, 10>>, <<i_arraylength>>, <<i_iaload>>,
     <<i_iastore>>, <<i_invokestatic, 0, 2>>, <<87>>, <<202>>}
GenPrograms ==
    {Class(<<Meth(Flatten(is), ms, 1, 0), Meth(<<i_iload_0, i_ireturn>>, 1, 1, 1)>>, <<>>)
        : is \in UNION {[1..n -> GenInstrs] : n \in 1..MaxGenLen}, ms \in 1..2}

Programs ==
    ArithPrograms \cup BranchPrograms \cup PushPrograms \cup LoopPrograms
        \cup RecursionPrograms \cup CallPrograms \cup ArrayPrograms \cup GenPrograms
        \cup OutputPrograms \cup SharingPrograms

\* main(): the heap is empty, the locals of main are zeroed, execute() is
\* called on the main method
Init ==
    /\ class \in Programs
    /\ frames = <<NewFrame(1, Zeros(class.methods[1].max_locals), 1, 0)>>
    /\ blocks = calloc(<<>>, "stack")
    /\ heap = <<>>
    /\ out = <<>>
    /\ status = "running"
    /\ result = Void
    /\ steps = 0

Spec == Init /\ [][Next]_vars

-----------------------------------------------------------------------------
(* Properties *)

\* the run has been ended by a failed assert() or by a trap
Fatal == status \in {"abort", "crash"}

\* C1: in every frame, after each opcode completes and while the interpreter
\* goes on, the operand-stack depth is in [0, max_stack] of the frame's method
C1_StackDepthInBounds ==
    (status = "running" /\ frames # <<>>)
        => (0 <= Top.stack_index /\ Top.stack_index <= max_stack(Top))

\* the number of operands the instruction at the pc of frame f reads or pops
OperandsNeeded(f) ==
    LET op == code(f)[f.pc + 1]
    IN  IF \/ op \in {i_ineg, i_dup, i_istore, i_astore, i_ireturn, i_areturn, i_newarray,
                      i_arraylength, i_invokevirtual}
           \/ op \in If1Opcodes
           \/ (op >= i_istore_0 /\ op <= i_istore_3)
           \/ (op >= i_astore_0 /\ op <= i_astore_3)
        THEN 1
        ELSE IF op \in BinaryOpcodes \cup If2Opcodes \cup {i_iaload} THEN 2
        ELSE IF op = i_iastore THEN 3
        ELSE IF op = i_invokestatic /\ f.pc + 2 < code_length(f)
        THEN LET m == find_method_from_index(
                          Int16(code(f)[f.pc + 2] * 256 + code(f)[f.pc + 3]))
             IN  IF m = 0 THEN 0 ELSE class.methods[m].params
        ELSE 0

\* C2: an opcode that needs k operands and is dispatched with a depth below k
\* ends the run at that opcode
C2_UnderflowIsFatal ==
    [][(InLoop /\ 0 <= Top.stack_index /\ Top.stack_index < OperandsNeeded(Top))
          => Fatal']_vars

\* C3: a byte at pc that is no supported opcode ends the run
C3_UnknownOpcodeIsFatal ==
    [][(InLoop /\ ~Supported(instruction)) => Fatal']_vars

\* C4: invokestatic of a callee with P parameters, the P arguments being the
\* top P slots of the caller in push order v0..v(P-1): the callee starts with
\* locals[j] = vj for j < P and 0 in the other slots, pc = 0 and an empty
\* stack; while it runs the caller's frame is left alone; on return the
\* caller's depth is its depth before the call minus P, plus 1 with the
\* returned value on top iff the callee returned a value, and its pc is 3 on
C4_CallConvention ==
    [][/\ \A i \in 1..Len(frames) :
             (i < Len(frames) /\ i < Len(frames')) => frames'[i] = frames[i]
       /\ (Len(frames') = Len(frames) + 1) =>
             LET f == Top
                 g == frames'[Len(frames')]
                 P == class.methods[g.method].params
                 n == class.methods[g.method].max_locals
             IN  (P <= f.stack_index /\ f.stack_index <= Len(f.stack)) =>
                    /\ Len(g.locals) = n
                    /\ \A j \in 0..(n - 1) :
                          g.locals[j + 1] =
                             IF j < P THEN f.stack[f.stack_index - P + j + 1] ELSE 0
                    /\ g.pc = 0
                    /\ g.stack_index = 0
                    /\ g.stack = Zeros(class.methods[g.method].max_stack)
                    /\ frames'[Len(frames)] = [f EXCEPT !.stack_index = f.stack_index - P]
       /\ (Len(frames') = Len(frames) - 1 /\ Len(frames') >= 1) =>
             LET c == frames[Len(frames) - 1]
                 d == frames'[Len(frames')]
                 returns_value == /\ SizeLt(Top.pc, code_length(Top))
                                  /\ instruction \in {i_ireturn, i_areturn}
             IN  c.stack_index >= 0 =>
                    /\ d.pc = c.pc + 3
                    /\ d.locals = c.locals
                    /\ returns_value =>
                          /\ d.stack_index = c.stack_index + 1
                          /\ d.stack[d.stack_index] = result'.value
                          /\ (Top.stack_index >= 1 /\ Top.stack_index <= Len(Top.stack))
                                => result'.value = Top.stack[Top.stack_index]
                          /\ \A i \in 1..c.stack_index : d.stack[i] = c.stack[i]
                    /\ ~returns_value => (d.stack_index = c.stack_index /\ d.stack = c.stack)
      ]_vars

\* a call of a callee with 3 parameters has returned its first argument, 11,
\* to main, which had pushed 9 and then 11, 22, 33
C4_Witness ==
    /\ class \in CallPrograms
    /\ class.methods[2].params = 3
    /\ status = "running"
    /\ Len(frames) = 1
    /\ result = Value(11)
    /\ Top.pc = 11
    /\ Top.stack_index = 2
    /\ Top.stack[1] = 9
    /\ Top.stack[2] = 11

\* C5: references are stable and arrays round-trip.  Step by step: newarray
\* of a length L >= 0 appends one array of L zero elements whose length reads
\* L, leaves every earlier array and reference as it was and returns a
\* reference no earlier call returned; iastore(r, k, v) with 0 <= k < L changes
\* element k of r to v and nothing else in the heap; iaload(r, k) yields
\* element k; arraylength(r) yields the length slot; no other opcode changes
\* the heap.  End to end: the array programs whose store and load are in range
\* print the stored value exactly when they load the element they stored, and
\* then the two lengths.
C5_StepOk ==
    LET f == Top
        g == frames'[Len(frames')]
        sp == f.stack_index
        InRange(k) == sp - k >= 0 /\ sp <= Len(f.stack)
        Slot(k) == f.stack[sp - k + 1]
        Elems(r) == Len(heap[r + 1]) - 1
    IN  /\ Len(heap') >= Len(heap)
        /\ (~InLoop \/ instruction \notin {i_newarray, i_iastore}) => heap' = heap
        /\ (InLoop /\ instruction = i_newarray /\ InRange(1) /\ status' = "running") =>
              /\ Len(heap') = Len(heap) + 1
              /\ SubSeq(heap', 1, Len(heap)) = heap
              /\ g.stack[sp] = Len(heap)
              /\ Slot(1) >= 0 =>
                    /\ Len(heap'[Len(heap')]) = Slot(1) + 1
                    /\ heap'[Len(heap')][1] = Slot(1)
                    /\ \A i \in 2..(Slot(1) + 1) : heap'[Len(heap')][i] = 0
        /\ (InLoop /\ instruction = i_iastore /\ InRange(3) /\ ValidRef(heap, Slot(3))
               /\ 0 <= Slot(2) /\ Slot(2) < Elems(Slot(3))) =>
              /\ status' = "running"
              /\ heap' = [heap EXCEPT ![Slot(3) + 1][Slot(2) + 2] = Slot(1)]
              /\ g.stack_index = sp - 3
        /\ (InLoop /\ instruction = i_iaload /\ InRange(2) /\ ValidRef(heap, Slot(2))
               /\ 0 <= Slot(1) /\ Slot(1) < Elems(Slot(2)) /\ sp - 2 < max_stack(f)) =>
              /\ status' = "running"
              /\ g.stack[sp - 1] = heap[Slot(2) + 1][Slot(1) + 2]
              /\ g.stack_index = sp - 1
        /\ (InLoop /\ instruction = i_arraylength /\ InRange(1) /\ ValidRef(heap, Slot(1))
               /\ Elems(Slot(1)) >= 0 /\ sp - 1 < max_stack(f)) =>
              /\ status' = "running"
              /\ g.stack[sp] = heap[Slot(1) + 1][1]
C5_EndToEnd ==
    LET c == class.methods[1].code
        l1 == Int8(c[2])
        l2 == Int8(c[7])
        x == c[11] - i_aload_0
        y == c[16] - i_aload_0
        k == Int8(c[13])
        k2 == Int8(c[18])
        len(z) == IF z = 1 THEN l1 ELSE l2
    IN  (/\ Len(c) = 32
         /\ class = ArrayProgram(l1, l2, x, y, k, k2)
         /\ l2 >= 0
         /\ 0 <= k /\ k < len(x)
         /\ 0 <= k2 /\ k2 < len(y))
           => /\ status \in {"running", "done"}
              /\ status = "done" =>
                    out = <<IF x = y /\ k = k2 THEN 5 ELSE 0, l1, l2>>
FrameReturns == Len(frames') < Len(frames)
ReturnOpcodes == {i_return, i_ireturn, i_areturn}

\* C6, as stated: a frame leaves Running only by executing return, ireturn or
\* areturn, and every other opcode keeps it Running
C6_OnlyReturnOpcodesEndAFrame ==
    [][/\ FrameReturns => (InLoop /\ instruction \in ReturnOpcodes)
       /\ (InLoop /\ instruction \notin ReturnOpcodes /\ status' = "running")
             => (Len(frames') >= Len(frames)
                    /\ frames'[Len(frames)].method = Top.method)
      ]_vars

\* C6, amended: a frame leaves Running by executing return (void result), by
\* ireturn or areturn (the result carries the value of slot stack_index - 1,
\* the top of the operand stack whenever the stack is not empty), or by its pc
\* being at or past code_length when the loop condition is tested (void
\* result, no opcode executed); every other opcode keeps the frame Running
\* unless it ends the whole run; a returned frame is off the call stack, so
\* none of its opcodes executes again, and its result is what its caller
\* receives: main() ends the run (fatally if there is a value), an invoking
\* frame pushes the value if there is one.
C6_FrameStateMachine ==
    [][/\ status = "running"
       /\ FrameReturns =>
             /\ Len(frames') = Len(frames) - 1
             /\ \/ InLoop /\ instruction = i_return /\ result' = Void
                \/ /\ InLoop
                   /\ instruction \in {i_ireturn, i_areturn}
                   /\ result'.has_value
                   /\ (Top.stack_index >= 1 /\ Top.stack_index <= Len(Top.stack))
                         => result'.value = Top.stack[Top.stack_index]
                \/ SizeGe(Top.pc, code_length(Top)) /\ result' = Void
             /\ IF Len(frames') = 0
                THEN status' = IF result'.has_value THEN "abort" ELSE "done"
                ELSE LET c == frames[Len(frames) - 1]
                         d == frames'[Len(frames')]
                     IN  /\ status' = "running"
                         /\ d.method = c.method
                         /\ IF result'.has_value
                            THEN /\ d.stack_index = c.stack_index + 1
                                 /\ d.stack_index >= 1 => d.stack[d.stack_index] = result'.value
                            ELSE d.stack_index = c.stack_index /\ d.stack = c.stack
       /\ ~FrameReturns => result' = result
       /\ (InLoop /\ instruction \notin ReturnOpcodes /\ status' = "running")
             => (Len(frames') >= Len(frames)
                    /\ frames'[Len(frames)].method = Top.method)
      ]_vars

\* a callee whose code jumps past its end with two values on its stack has
\* returned void to main, whose stack still holds what it held at the call
C6_Witness ==
    /\ class \in CallPrograms
    /\ class.methods[2].code = <<i_iload_0 + 1, i_iload_0 + 2, i_goto, 0, 9>>
    /\ class.methods[2].params = 2
    /\ status = "running"
    /\ Len(frames) = 1
    /\ result = Void
    /\ Top.pc = 11
    /\ Top.stack_index = 2

\* the top frame after the step, and the operands the instruction finds:
\* Operand(k) is the slot k below the top (Operand(1) is the top)
TopAfter == frames'[Len(frames')]
HasOperands(k) == k <= Top.stack_index /\ Top.stack_index <= max_stack(Top)
Operand(k) == Top.stack[Top.stack_index - k + 1]
\* the instruction replaces its two operands by v and the loop goes on
LeavesValue(v) ==
    /\ status' = "running"
    /\ TopAfter.stack_index = Top.stack_index - 1
    /\ TopAfter.stack[TopAfter.stack_index] = v

\* C7: ishl, ishr and iushr of a (value) and b (count) leave a shifted by
\* b & 0x1F, for every count b
C7_ShiftCountsMasked ==
    [][(InLoop /\ instruction \in {i_ishl, i_ishr, i_iushr} /\ HasOperands(2)) =>
          LET a == Operand(2)
              count == BitAnd(Operand(1), 31)
          IN  LeavesValue(IF instruction = i_ishl THEN ShlBits(a, count)
                          ELSE IF instruction = i_ishr THEN SarBits(a, count)
                          ELSE ShrBits(a, count))
      ]_vars

\* C8: iadd, isub, imul and ineg leave the mathematical result reduced
\* modulo 2^32 into [-2^31, 2^31 - 1], on every input
C8_WrapAround ==
    [][/\ (InLoop /\ instruction \in {i_iadd, i_isub, i_imul} /\ HasOperands(2)) =>
             LeavesValue(IF instruction = i_iadd THEN AddWrap(Operand(2), Operand(1))
                         ELSE IF instruction = i_isub THEN SubWrap(Operand(2), Operand(1))
                         ELSE MulWrap(Operand(2), Operand(1)))
       /\ (InLoop /\ instruction = i_ineg /\ HasOperands(1)) =>
             /\ status' = "running"
             /\ TopAfter.stack_index = Top.stack_index
             /\ TopAfter.stack[Top.stack_index] = SubWrap(0, Operand(1))
      ]_vars

\* C9: idiv and irem of a and b: with b = 0 the run aborts with the frame
\* untouched; otherwise they leave the quotient truncated toward zero and the
\* remainder with the sign of a, for all a and b, INT_MIN and -1 included
\* (quotient INT_MIN, remainder 0)
C9_DivRem ==
    [][(InLoop /\ instruction \in {i_idiv, i_irem} /\ HasOperands(2)) =>
          LET a == Operand(2)
              b == Operand(1)
          IN  IF b = 0 THEN status' = "abort" /\ frames' = frames
              ELSE IF a = MinInt /\ b = -1
              THEN LeavesValue(IF instruction = i_idiv THEN MinInt ELSE 0)
              ELSE LeavesValue(IF instruction = i_idiv THEN TruncDiv(a, b)
                               ELSE TruncRem(a, b))
      ]_vars

\* the signed 16-bit value of two operand bytes, high byte first
S16(hi, lo) == IF hi * 256 + lo >= 32768 THEN hi * 256 + lo - 65536 ELSE hi * 256 + lo
\* whether the conditional branch op is to be taken on operands a (and b)
Taken1(op, a) ==
    CASE op = i_ifeq -> a = 0
      [] op = i_ifne -> a # 0
      [] op = i_iflt -> a < 0
      [] op = i_ifge -> a >= 0
      [] op = i_ifgt -> a > 0
      [] op = i_ifle -> a <= 0
Taken2(op, a, b) ==
    CASE op = i_if_icmpeq -> a = b
      [] op = i_if_icmpne -> a # b
      [] op = i_if_icmplt -> a < b
      [] op = i_if_icmpge -> a >= b
      [] op = i_if_icmpgt -> a > b
      [] op = i_if_icmple -> a <= b

\* C10: goto and every taken conditional branch set pc to the pc of the branch
\* opcode plus the signed big-endian 16-bit offset, backward for a negative
\* offset and at no wrapped pc when that sum is not negative; a conditional
\* branch that is not taken sets pc to pc + 3
C10_BranchTargets ==
    [][(InLoop /\ Top.pc + 2 < code_length(Top)) =>
          LET op == instruction
              target == Top.pc + S16(code(Top)[Top.pc + 2], code(Top)[Top.pc + 3])
              Goes(pc) == /\ status' = "running"
                          /\ Len(frames') = Len(frames)
                          /\ TopAfter.pc = pc
                          /\ (pc >= 0 => SizeGe(TopAfter.pc, Top.pc) = (pc >= Top.pc))
          IN  /\ op = i_goto => Goes(target)
              /\ (op \in If1Opcodes /\ HasOperands(1)) =>
                    Goes(IF Taken1(op, Operand(1)) THEN target ELSE Top.pc + 3)
              /\ (op \in If2Opcodes /\ HasOperands(2)) =>
                    Goes(IF Taken2(op, Operand(2), Operand(1)) THEN target ELSE Top.pc + 3)
      ]_vars

\* the loop program has taken its if_icmplt at pc 13 with offset -9 (bytes
\* 255, 247) back to pc 4, after the first round of the loop
C10_Witness ==
    /\ class \in LoopPrograms
    /\ status = "running"
    /\ Top.pc = 4
    /\ Top.locals[3] = 2
    /\ Top.stack_index = 0

\* the frames under the innermost one wait: a step that does not return
\* leaves them as they are
CallersWait ==
    Len(frames') >= Len(frames) =>
        \A i \in 1..(Len(frames) - 1) : frames'[i] = frames[i]

\* C11: output is produced only by invokevirtual, which pops one value and
\* appends exactly that value; output is only ever appended by the innermost
\* frame while its callers wait, so what a callee prints lies between what
\* its caller printed before the call and what it prints after it
C11_OutputInOrder ==
    [][/\ out' # out =>
             /\ InLoop /\ instruction = i_invokevirtual
             /\ Len(out') = Len(out) + 1
             /\ SubSeq(out', 1, Len(out)) = out
       /\ (InLoop /\ instruction = i_invokevirtual /\ HasOperands(1)) =>
             /\ status' = "running"
             /\ out' = Append(out, Operand(1))
             /\ TopAfter = [Top EXCEPT !.stack_index = @ - 1, !.pc = @ + 3]
       /\ CallersWait
       /\ (class \in OutputPrograms /\ status' = "done") => out' = <<1, 2, 3, 4, 5>>
      ]_vars

\* the three nested methods have printed in call order and main has returned,
\* the innermost method having returned a value that its caller left unprinted
C11_Witness ==
    /\ class \in OutputPrograms
    /\ class.methods[3].code = <<i_iconst_0 + 3, i_invokevirtual, 0, 0, i_iconst_0, i_ireturn>>
    /\ status = "done"
    /\ out = <<1, 2, 3, 4, 5>>

\* the stack effect of the opcodes that neither call nor return, as the
\* opcode table gives it
StackEffect(op) ==
    IF \/ op \in {i_bipush, i_sipush, i_ldc, i_iload, i_aload, i_dup}
       \/ (op >= i_iconst_m1 /\ op <= i_iconst_5)
       \/ (op >= i_iload_0 /\ op <= i_iload_3)
       \/ (op >= i_aload_0 /\ op <= i_aload_3)
    THEN 1
    ELSE IF op \in {i_nop, i_iinc, i_ineg, i_goto, i_getstatic, i_newarray, i_arraylength}
    THEN 0
    ELSE IF \/ op \in {i_istore, i_astore, i_invokevirtual, i_iaload}
            \/ op \in BinaryOpcodes \cup If1Opcodes
            \/ (op >= i_istore_0 /\ op <= i_istore_3)
            \/ (op >= i_astore_0 /\ op <= i_astore_3)
    THEN -1
    ELSE IF op \in If2Opcodes THEN -2
    ELSE -3
TableOpcodes == {b \in 0..255 : Supported(b)} \ (ReturnOpcodes \cup {i_invokestatic})

\* C12: an opcode executed on a stack that holds its operands changes the
\* depth by the stack effect of the opcode table; invokestatic takes P off the
\* caller's depth at the call and adds 1 at the return iff the callee returned
\* a value
C12_StackEffects ==
    [][/\ (InLoop /\ status' = "running" /\ 0 <= Top.stack_index
              /\ OperandsNeeded(Top) <= Top.stack_index) =>
             /\ instruction \in TableOpcodes =>
                   /\ Len(frames') = Len(frames)
                   /\ TopAfter.stack_index = Top.stack_index + StackEffect(instruction)
             /\ instruction = i_invokestatic =>
                   /\ Len(frames') = Len(frames) + 1
                   /\ frames'[Len(frames)].stack_index =
                          Top.stack_index - get_number_of_parameters(TopAfter.method)
       /\ (FrameReturns /\ status' = "running") =>
             TopAfter.stack_index = frames[Len(frames')].stack_index
                                       + (IF result'.has_value THEN 1 ELSE 0)
      ]_vars

\* the array program has executed its iastore on a stack of depth 3, which is
\* now empty
C12_Witness ==
    /\ class \in ArrayPrograms
    /\ status = "running"
    /\ Len(heap) = 2
    /\ Top.pc = 15
    /\ Top.stack_index = 0

\* the encoded length of an instruction: the opcode and its operand bytes
BranchOpcodes == If1Opcodes \cup If2Opcodes \cup {i_goto}
InstructionLength(op) ==
    IF op \in {i_bipush, i_ldc, i_iload, i_istore, i_aload, i_astore, i_newarray} THEN 2
    ELSE IF op \in {i_sipush, i_iinc, i_getstatic, i_invokevirtual, i_invokestatic}
                      \cup BranchOpcodes
    THEN 3
    ELSE 1
\* the offsets a linear sweep of the code c from offset pc finds instructions
\* at, and the offset it ends at
RECURSIVE Sweep(_, _)
Sweep(c, pc) ==
    IF pc >= Len(c) THEN {pc} ELSE {pc} \cup Sweep(c, pc + InstructionLength(c[pc + 1]))
InstructionStarts(c) == {pc \in Sweep(c, 0) : pc < Len(c)}
\* the code is a sequence of whole supported instructions whose branch offsets
\* land on instruction starts
WellFormed(c) ==
    /\ Len(c) \in Sweep(c, 0)
    /\ \A pc \in InstructionStarts(c) :
          /\ Supported(c[pc + 1])
          /\ c[pc + 1] \in BranchOpcodes =>
                pc + S16(c[pc + 2], c[pc + 3]) \in InstructionStarts(c)

\* C13: an opcode that does not branch moves pc on by its encoded length (a
\* call once the callee has returned); a branch moves it by 3 or to its
\* target; so in code that is well formed every frame's pc is the offset of
\* an instruction, or the end of the code, whenever the loop condition is
\* tested
C13_PcAtInstructionStart ==
    [][/\ (InLoop /\ status' = "running" /\ Len(frames') = Len(frames)
              /\ Supported(instruction)) =>
             IF instruction \notin BranchOpcodes
             THEN TopAfter.pc = Top.pc + InstructionLength(instruction)
             ELSE \/ TopAfter.pc = Top.pc + 3 /\ instruction # i_goto
                  \/ /\ Top.pc + 2 < code_length(Top)
                     /\ TopAfter.pc = Top.pc + S16(code(Top)[Top.pc + 2], code(Top)[Top.pc + 3])
       /\ (FrameReturns /\ status' = "running") =>
             /\ code(TopAfter)[frames[Len(frames')].pc + 1] = i_invokestatic
             /\ TopAfter.pc = frames[Len(frames')].pc + InstructionLength(i_invokestatic)
       /\ \A i \in 1..Len(frames') :
             WellFormed(code(frames'[i])) =>
                frames'[i].pc \in Sweep(code(frames'[i]), 0)
      ]_vars

\* the well-formed program of bipush, istore, iload, dup, getstatic,
\* invokevirtual, astore, aload and return has run through, every instruction
\* having been dispatched at its own offset
C13_Witness ==
    /\ class \in PushPrograms
    /\ class.methods[1].code[1] = i_bipush
    /\ WellFormed(class.methods[1].code)
    /\ status = "done"
    /\ out = <<127>>

\* the blocks of a kind that have not been released
Live(kind) == {b \in DOMAIN blocks : blocks[b].kind = kind /\ blocks[b].frees = 0}
\* no block released twice; while the run goes on, each frame's operand stack
\* and callee-locals array are its own and not released, and nothing else is
\* allocated
BlocksOwned ==
    /\ \A b \in DOMAIN blocks : blocks[b].frees <= 1
    /\ status = "running" =>
          /\ Live("stack") = {frames[i].stack_block : i \in DOMAIN frames}
          /\ Live("locals") = {frames[i].locals_block : i \in DOMAIN frames} \ {0}
          /\ Cardinality(Live("stack")) = Len(frames)
          /\ Cardinality(Live("locals")) = Len(frames) - 1

\* C14: every operand stack and callee-locals array is released exactly once,
\* on every path on which a frame ends: return, ireturn, areturn, the end of
\* the code, and a fatal assertion; none is released twice or used after its
\* release, and none is still allocated when the run ends
C14_BlocksReleased ==
    /\ BlocksOwned
    /\ status \in {"done", "abort"} => \A b \in DOMAIN blocks : blocks[b].frees = 1

\* C15: if<cond> pops a and branches iff a <cond> 0; if_icmp<cond> pops b,
\* then a, and branches iff a <cond> b, in signed comparison; taken or not, the
\* depth drops by 1 respectively 2 and the rest of the stack, the locals and
\* everything outside the frame stay as they were
C15_ConditionalBranches ==
    [][(InLoop /\ Top.pc + 2 < code_length(Top)) =>
          LET op == instruction
              target == Top.pc + S16(code(Top)[Top.pc + 2], code(Top)[Top.pc + 3])
              Leaves(k, taken) ==
                  /\ status' = "running"
                  /\ frames' = [frames EXCEPT ![Len(frames)] =
                                   [Top EXCEPT !.stack_index = @ - k,
                                               !.pc = IF taken THEN target ELSE @ + 3]]
                  /\ UNCHANGED <<heap, out, result, blocks>>
          IN  /\ (op \in If1Opcodes /\ HasOperands(1)) =>
                    Leaves(1, Taken1(op, Operand(1)))
              /\ (op \in If2Opcodes /\ HasOperands(2)) =>
                    Leaves(2, Taken2(op, Operand(2), Operand(1)))
      ]_vars

\* if_icmplt on a = -2^31 (pushed first) and b = 2^31 - 1 (on top) has been
\* taken, from pc 4 by the offset 4, and has left the stack empty
C15_Witness ==
    /\ class \in BranchPrograms
    /\ class.constant_pool = <<MinInt, MaxInt>>
    /\ class.methods[1].code[5] = i_if_icmplt
    /\ status = "running"
    /\ Top.pc = 8
    /\ Top.stack_index = 0
    /\ Top.stack = <<MinInt, MaxInt, 0>>

\* floor(a / 2^k), and (a mod 2^32) div 2^k read as a signed 32-bit value,
\* for k in 0..31: for a < 0 and k > 0 the latter is floor(a / 2^k) + 2^(32-k)
FloorShift(a, k) == IF k = 31 THEN (IF a < 0 THEN -1 ELSE 0) ELSE a \div Pow2(k)
ZeroFillShift(a, k) ==
    IF a >= 0 \/ k = 0 THEN FloorShift(a, k)
    ELSE (FloorShift(a, k) + ((Pow2(31 - k) - 1) * 2 + 1)) + 1

\* C16: for a count k in 0..31, ishr leaves floor(a / 2^k) and iushr leaves
\* (a mod 2^32) div 2^k read as a signed 32-bit value
C16_RightShifts ==
    [][(InLoop /\ instruction \in {i_ishr, i_iushr} /\ HasOperands(2)
           /\ Operand(1) \in 0..31) =>
          LeavesValue(IF instruction = i_ishr THEN FloorShift(Operand(2), Operand(1))
                      ELSE ZeroFillShift(Operand(2), Operand(1)))
      ]_vars

\* the program that prints iushr(-1, 1) has printed 0x7FFFFFFF
C16_Witness ==
    /\ class \in ArithPrograms
    /\ class.methods[1].code[5] = i_iushr
    /\ class.constant_pool = <<-1, 1>>
    /\ status = "done"
    /\ out = <<MaxInt>>

\* C17: the length slot of an array is reserved: no step the interpreter
\* goes on after changes slot 0 of an array of the heap, so arraylength of a
\* reference yields the length newarray was given for as long as the run lasts
C17_LengthSlotReserved ==
    [][status' = "running" =>
          \A r \in 1..Len(heap) :
              /\ Len(heap') >= r
              /\ heap'[r][LengthSlot + 1] = heap[r][LengthSlot + 1]
      ]_vars

\* C18: bipush with operand byte x pushes x if x < 128 and x - 256 otherwise;
\* sipush with operand bytes hi, lo pushes hi * 256 + lo if that is below
\* 32768 and that value minus 65536 otherwise; the pushed value is in
\* [-128, 127] respectively [-32768, 32767] and pc moves on by 2 respectively 3
C18_SignExtendedPushes ==
    [][(InLoop /\ 0 <= Top.stack_index /\ Top.stack_index < max_stack(Top)) =>
          LET Pushes(v, adv) ==
                  /\ status' = "running"
                  /\ frames' = [frames EXCEPT ![Len(frames)] =
                                   [Top EXCEPT !.stack[Top.stack_index + 1] = v,
                                               !.stack_index = @ + 1,
                                               !.pc = @ + adv]]
          IN  /\ (instruction = i_bipush /\ Top.pc + 1 < code_length(Top)) =>
                    LET x == code(Top)[Top.pc + 2]
                        v == IF x < 128 THEN x ELSE x - 256
                    IN  Pushes(v, 2) /\ v \in -128..127
              /\ (instruction = i_sipush /\ Top.pc + 2 < code_length(Top)) =>
                    LET u == code(Top)[Top.pc + 2] * 256 + code(Top)[Top.pc + 3]
                        v == IF u < 32768 THEN u ELSE u - 65536
                    IN  Pushes(v, 3) /\ v \in -32768..32767
      ]_vars

\* the program that prints sipush 0x80 0x00 has printed -32768
C18_Witness ==
    /\ class \in PushPrograms
    /\ class.methods[1].code = <<i_sipush, 128, 0, i_invokevirtual, 0, 0, i_return>>
    /\ status = "done"
    /\ out = <<-32768>>

\* C19: a frame whose pc is at or past code_length at the loop test stops
\* without executing an opcode: its operand stack is released and its result
\* is void whatever its stack holds, as after return; main's run is then done,
\* and a calling frame goes on after its invokestatic with nothing pushed
C19_EndOfCodeReturnsVoid ==
    [][(status = "running" /\ frames # <<>> /\ SizeGe(Top.pc, code_length(Top))) =>
          /\ result' = Void
          /\ blocks'[Top.stack_block].frees = 1
          /\ UNCHANGED <<heap, out>>
          /\ IF Len(frames) = 1
             THEN status' = "done" /\ frames' = <<>>
             ELSE /\ status' = "running"
                  /\ blocks'[Top.locals_block].frees = 1
                  /\ frames' = [i \in 1..(Len(frames) - 1) |->
                                   IF i = Len(frames) - 1
                                   THEN [frames[i] EXCEPT !.pc = @ + 3]
                                   ELSE frames[i]]
      ]_vars

\* main, whose code is iconst_1, dup and nothing else, has run off the end of
\* its code with two values on its stack: the run is done, the result void
\* and the stack released
C19_Witness ==
    /\ class.methods[1].code = <<i_iconst_0 + 1, i_dup>>
    /\ class.methods[1].max_stack = 2
    /\ status = "done"
    /\ result = Void
    /\ frames = <<>>
    /\ blocks = <<[kind |-> "stack", frees |-> 1]>>

\* C20: a call touches in the caller only what it is to touch: while a callee
\* runs (its own calls included) every frame under it is as it was; at the
\* call the caller's locals and stack slots are left alone and the callee's
\* locals are an array of its own; at the return the caller's locals and the
\* slots under the popped arguments are as before the call; neither the call
\* nor the return changes the heap, so what the callee stored in an array is
\* what the caller loads from it, through a passed or a returned reference
C20_CallLeavesCallerAlone ==
    [][/\ \A i \in 1..(Len(frames) - 1) :
             i < Len(frames') => frames'[i] = frames[i]
       /\ Len(frames') = Len(frames) + 1 =>
             /\ frames'[Len(frames)].locals = Top.locals
             /\ frames'[Len(frames)].stack = Top.stack
             /\ TopAfter.locals_block # Top.locals_block
             /\ TopAfter.stack_block # Top.stack_block
             /\ heap' = heap
       /\ (FrameReturns /\ status' = "running") =>
             LET c == frames[Len(frames')]
             IN  /\ TopAfter.locals = c.locals
                 /\ \A i \in 1..c.stack_index :
                       i <= Len(c.stack) => TopAfter.stack[i] = c.stack[i]
                 /\ heap' = heap
       /\ (class \in SharingPrograms /\ status' = "done") => out' = <<1, 9>>
      ]_vars

\* the recursive callee has stored 1 in the array main passed, overwritten
\* its own local 1 and returned the reference; main has printed the element
\* through the returned reference, then the 9 it had pushed before the call
C20_Witness ==
    /\ class \in SharingPrograms
    /\ class.methods[1].code[12] = i_iconst_0
    /\ status = "done"
    /\ heap = <<<<1, 1>>>>
    /\ out = <<1, 9>>
    /\ Len(blocks) = 5

====
